---- MODULE Spec2Model ----
(***************************************************************************)
(* FrontendManager (scripts/apps/webapp/frontend_manager.py): the dev      *)
(* server supervisor.  One manager object, one flow of API calls           *)
(* (start_with_failover, stop), the child processes it spawns and the log  *)
(* files it opens.  The children run concurrently with the manager.        *)
(*                                                                         *)
(* _ensure_dependencies has no return statement, so the test at line 112   *)
(* fails for the class as written and lines 115-146 are never reached.     *)
(* deps_stub = FALSE is the class as written.  deps_stub = TRUE is the     *)
(* manager with _ensure_dependencies replaced by a stand-in returning      *)
(* True, the only way lines 115-146, _wait_for_frontend and a stop() of an *)
(* owned process are executed at all.                                      *)
(***************************************************************************)
EXTENDS Integers, Sequences, FiniteSets, TLC

\* ---- bounds of the model
MaxFallbacks == 1
MaxTimeout == 3
MaxStarts == 2
\* every start_with_failover may leave one more child behind
MaxLaunches == MaxStarts

\* ---- program constants
PortBase == 3000
SleepSeconds == 2

None == 0
NoUrl == <<>>
\* logs/frontend_stdout.log without a "Local:" line
NoLog == <<>>
\* the configured ports: the start port and the fallbacks after it, as in
\* the defaults of lines 45-46
Ports == PortBase .. (PortBase + MaxFallbacks)
FallbackLists == {[i \in 1..n |-> PortBase + i] : n \in 0..MaxFallbacks}
TimeoutChoices == {0, MaxTimeout}

VARIABLES
  \* Configuration (lines 43-50)
  enabled, frontend_path, start_port, fallback_ports, timeout_seconds,
  \* TRUE when _ensure_dependencies is replaced by a stand-in returning True
  deps_stub,
  \* runtime state (lines 53-58)
  process, current_port, current_url, pid,
  frontend_stdout_log_file, frontend_stderr_log_file,
  \* environment: dependency directory, spawned children, opened log files,
  \* the ports of the "Local: http://localhost:<q>" lines that the child of
  \* the attempt in flight has written to logs/frontend_stdout.log: none, the
  \* first, or the first and the last.  The file is truncated by the open of
  \* line 120 and read only by the wait that follows, so its lines are
  \* forgotten when that wait is over
  node_modules, procs, files, stdout_log,
  \* position of the start_with_failover flow and its locals
  pc, ports_to_try, idx, detected_port, url_to_check, elapsed, probes,
  result, attempt,
  \* the child the environment gives the current attempt
  child_plan,
  \* observation of the run: what was done for each candidate, what the
  \* install, the stop(), the health_check(), the occupancy check and the
  \* readiness probe of the last step did, the calls made
  h_events, h_install, h_stop, h_health, h_occ, h_probe, stops_in_row, starts,
  \* the caller of the manager: "lib" for a program that calls the API, else
  \* the position of main() of `frontend_manager.py start` (lines 333-367);
  \* cli_stub: TRUE when the start_dev_server that main() calls, a method
  \* the class does not have, is bound to start_with_failover
  cli_pc, cli_stub

cfg == <<enabled, frontend_path, start_port, fallback_ports, timeout_seconds,
         deps_stub, cli_stub>>
runtime == <<process, current_port, current_url, pid,
             frontend_stdout_log_file, frontend_stderr_log_file>>
envv == <<node_modules, procs, files, stdout_log>>
flow == <<pc, ports_to_try, idx, detected_port, url_to_check, elapsed, probes,
          result, attempt, child_plan>>
hist == <<h_events, h_install, h_stop, h_health, h_occ, h_probe, stops_in_row, starts, cli_pc>>
vars == <<cfg, runtime, envv, flow, hist>>

\* f"http://localhost:{port}"
Url(p) == <<"http://localhost:", p>>

NoResult == [pending |-> TRUE]

\* the manager's fields and the OS objects they refer to, as one value
Mgr == [process |-> process, current_port |-> current_port,
        current_url |-> current_url, pid |-> pid,
        out |-> frontend_stdout_log_file, err |-> frontend_stderr_log_file,
        procs |-> procs, files |-> files]

SetMgr(m) ==
  /\ process' = m.process /\ current_port' = m.current_port
  /\ current_url' = m.current_url /\ pid' = m.pid
  /\ frontend_stdout_log_file' = m.out /\ frontend_stderr_log_file' = m.err
  /\ procs' = m.procs /\ files' = m.files

\* a status whose running follows the child instead of the handle
get_status_alive ==
  [enabled |-> enabled,
   running |-> process # None /\ procs[process].alive,
   port |-> current_port, url |-> current_url, pid |-> pid,
   path |-> frontend_path, process |-> process]

\* get_status(), lines 306-316
get_status == [enabled |-> enabled, running |-> process # None,
               port |-> current_port, url |-> current_url, pid |-> pid,
               path |-> frontend_path, process |-> process]

\* ---------------------------------------------------------------------
\* stop(), lines 266-304

StopOutcomes == {"graceful", "forced", "error"}

\* terminate / wait(10) / kill / wait on one child, lines 273-281.
\* Popen.terminate() sends nothing to a child that already exited.
\* "error": terminate() raised, the handler at line 285 logs it.
Terminate(c, outcome) ==
  IF ~c.alive THEN c
  ELSE IF outcome \in {"graceful", "forced"} THEN [c EXCEPT !.alive = FALSE]
  ELSE c

\* a stop() that kills at once
Signals_kill_first(c, outcome) ==
  IF ~c.alive \/ outcome = "error" THEN <<>> ELSE <<"kill">>

\* the signals that reach the child in those lines, in order
Signals(c, outcome) ==
  IF ~c.alive \/ outcome = "error" THEN <<>>
  ELSE IF outcome = "graceful" THEN <<"terminate">>
  ELSE <<"terminate", "kill">>

\* the guarded close of one log sink, lines 288-300
CloseSink(fs, h) == IF h # None THEN [fs EXCEPT ![h].closes = @ + 1] ELSE fs

\* stop() that forgets the stderr sink
stop_leaks_stderr(m, outcome) ==
  IF m.process # None
  THEN [m EXCEPT !.procs = [@ EXCEPT ![m.process] = Terminate(@, outcome)],
                 !.files = CloseSink(@, m.out),
                 !.out = None,
                 !.process = None, !.current_url = NoUrl, !.pid = None]
  ELSE m

stop(m, outcome) ==
  IF m.process # None
  THEN [m EXCEPT !.procs = [@ EXCEPT ![m.process] = Terminate(@, outcome)],
                 !.files = CloseSink(CloseSink(@, m.out), m.err),
                 !.out = None, !.err = None,
                 !.process = None, !.current_url = NoUrl, !.pid = None]
  ELSE m

\* what one call of stop() did: the child it held, the signals it sent,
\* whether wait(timeout=10) ran out (line 278), whether lines 273-281
\* raised, the sinks it closed
NoStop == [child |-> None, signals |-> <<>>, timed_out |-> FALSE, raised |-> FALSE,
           closed |-> {}]
stop_report(m, outcome) ==
  IF m.process # None
  THEN [child |-> m.process,
        signals |-> Signals(m.procs[m.process], outcome),
        timed_out |-> m.procs[m.process].alive /\ outcome = "forced",
        raised |-> m.procs[m.process].alive /\ outcome = "error",
        closed |-> {m.out, m.err} \ {None}]
  ELSE NoStop

\* ---------------------------------------------------------------------
\* health_check(), lines 249-264

\* what the server does with a GET: a status, a ClientError, no answer
\* within the timeout
Responses == {"200", "500", "client_error", "timeout"}

NoHealth == [requests |-> 0]

\* a health check that reports success whatever the server answers
health_check_credulous(url, response) ==
  IF url = NoUrl
  THEN [requests |-> 0, ret |-> FALSE]
  ELSE [requests |-> 1, response |-> response, ret |-> TRUE]

\* the requests made and the value returned: no url, no request (line 251);
\* else one GET, True on a 200 (line 258), False on any other status or
\* any exception (lines 261-264)
health_check(url, response) ==
  IF url = NoUrl
  THEN [requests |-> 0, ret |-> FALSE]
  ELSE [requests |-> 1, response |-> response, ret |-> response = "200"]

\* no occupancy check made
NoOcc == [checked |-> FALSE]

\* no readiness probe made
NoProbe == "none"

\* a step that neither installs nor stops nor checks health or occupancy
NoStepReport ==
  /\ h_install' = "none" /\ h_stop' = NoStop /\ h_health' = NoHealth /\ h_occ' = NoOcc
  /\ h_probe' = NoProbe

\* a call of health_check() between two other calls of the API
HealthCheck ==
  /\ pc = "idle" /\ cli_pc = "lib"
  /\ \E response \in Responses : h_health' = health_check(current_url, response)
  /\ h_install' = "none" /\ h_stop' = NoStop /\ h_occ' = NoOcc /\ h_probe' = NoProbe
  /\ UNCHANGED <<cfg, runtime, envv, flow, h_events, stops_in_row, starts, cli_pc>>

\* a call of stop() between two other calls of the API
Stop ==
  /\ pc = "idle" /\ cli_pc = "lib"
  /\ \E outcome \in StopOutcomes :
       /\ SetMgr(stop(Mgr, outcome))
       /\ h_stop' = stop_report(Mgr, outcome)
  /\ stops_in_row' = IF stops_in_row < 2 THEN stops_in_row + 1 ELSE 2
  /\ h_install' = "none" /\ h_health' = NoHealth /\ h_occ' = NoOcc /\ h_probe' = NoProbe
  /\ UNCHANGED <<cfg, node_modules, stdout_log, flow, h_events, starts, cli_pc>>

\* ---------------------------------------------------------------------
\* start_with_failover(), lines 82-106

\* the fallbacks before the start port
Candidates_fallbacks_first(sp, fb) == fb \o <<sp>>

\* line 92: [self.start_port] + self.fallback_ports
Candidates(sp, fb) == <<sp>> \o fb

Failure(msg) == [success |-> FALSE, error |-> msg]

\* a start that does not look at the path
PathMissing_never(path) == FALSE

\* line 89: `not self.frontend_path`, true only for the None that
\* _find_frontend_path returns at line 80 (a Path object is always truthy)
PathMissing(path) == path = "None"

\* a start that does not look at the switch
Disabled_never(en) == FALSE

\* line 86: `not self.enabled`
Disabled(en) == ~en

\* lines 86-92: the two early returns, else the loop is entered
start_with_failover ==
  /\ pc = "idle"
  /\ cli_pc \in {"lib", "call"}
  /\ cli_pc' = IF cli_pc = "call" THEN "starting" ELSE cli_pc
  /\ starts < MaxStarts
  /\ starts' = starts + 1
  /\ stops_in_row' = 0
  /\ IF Disabled(enabled)
     THEN /\ result' = [success |-> TRUE, error |-> <<"Frontend desactive">>]
          /\ UNCHANGED <<pc, ports_to_try, idx, h_events>>
     ELSE IF PathMissing(frontend_path)
     THEN /\ result' = Failure(<<"Chemin du frontend non trouve.">>)
          /\ UNCHANGED <<pc, ports_to_try, idx, h_events>>
     ELSE /\ ports_to_try' = Candidates(start_port, fallback_ports)
          /\ idx' = 1
          /\ pc' = "loop"
          /\ result' = NoResult
          /\ h_events' = [i \in 1..(1 + Len(fallback_ports)) |-> {}]
  /\ attempt' = NoResult
  /\ NoStepReport
  /\ UNCHANGED <<cfg, runtime, envv, detected_port, url_to_check, elapsed, probes,
                 child_plan>>

\* _is_port_occupied(), lines 233-247.  net is what the host answers:
\* denied: psutil.net_connections raises AccessDenied; listening: the ports
\* with a LISTEN socket; http: a GET on the port would get a response.
\* The fallback enters `with aiohttp.ClientSession()`, a synchronous with on
\* an asynchronous context manager: TypeError, swallowed by the bare except.
_is_port_occupied(port, net) ==
  IF ~net.denied THEN port \in net.listening
  ELSE FALSE

NetAnswers(port) ==
  [denied : BOOLEAN, listening : {{}, {port}}, http : BOOLEAN]

\* the loop without its `continue`
SkipsPort_never(occupied) == FALSE

\* lines 96-98: `continue` when the check is true
SkipsPort(occupied) == occupied

\* what one occupancy check was answered and what it returned
OccReport(port, net, ret) ==
  [checked |-> TRUE, denied |-> net.denied, listening |-> port \in net.listening,
   http |-> net.http, ret |-> ret]

Tag(ev, i, t) == [ev EXCEPT ![i] = @ \cup {t}]
OccTag(occupied) == IF occupied THEN "occupied" ELSE "free"

\* lines 94-98: the candidate is occupied, the loop goes on
SkipOccupied ==
  /\ pc = "loop" /\ idx <= Len(ports_to_try)
  /\ \E net \in NetAnswers(ports_to_try[idx]) :
       LET occ == _is_port_occupied(ports_to_try[idx], net)
       IN /\ SkipsPort(occ)
          /\ h_events' = Tag(h_events, idx, OccTag(occ))
          /\ h_occ' = OccReport(ports_to_try[idx], net, occ)
  /\ idx' = idx + 1
  /\ UNCHANGED <<cfg, runtime, envv, pc, ports_to_try, detected_port, url_to_check,
                 elapsed, probes, result, attempt, child_plan, stops_in_row, starts, cli_pc>>
  /\ h_install' = "none" /\ h_stop' = NoStop /\ h_health' = NoHealth /\ h_probe' = NoProbe

\* the locals of _wait_for_frontend are gone once start_with_failover returns
ReturnLocals ==
  detected_port' = None /\ url_to_check' = NoUrl /\ elapsed' = 0 /\ probes' = 0

\* lines 104-106: the loop is over without a success
AllPortsFailed ==
  /\ pc = "loop" /\ idx > Len(ports_to_try)
  /\ result' = Failure(<<"Impossible de demarrer le frontend sur les ports configures",
                         ports_to_try>>)
  /\ pc' = "idle"
  /\ ReturnLocals
  /\ attempt' = NoResult
  /\ UNCHANGED <<cfg, runtime, envv, ports_to_try, idx, child_plan, h_events, stops_in_row, starts, cli_pc>>
  /\ NoStepReport

\* ---------------------------------------------------------------------
\* _start_on_port(), lines 108-146

InstallOutcomes == {"skipped", "ok", "nonzero", "timeout", "exception"}

\* _ensure_dependencies(), lines 148-174: what the install leaves behind and
\* what the coroutine returns.  No branch has a return statement, so the
\* call evaluates to None whatever the install did.
_ensure_dependencies(nm, outcome) ==
  [node_modules |-> nm \/ outcome = "ok",
   killed |-> outcome = "timeout",
   ret |-> "None"]

\* bool(x) for the values a dependency step can return
Truthy(v) == v = "True"

\* a loop that returns whatever the attempt returned
ReturnsAtOnce_any(res) == TRUE

\* lines 101-102: `if result['success']: return result`
ReturnsAtOnce(res) == res.success

\* the exit of _start_on_port with a failure: `if result['success']` is not
\* taken at line 101, the for loop moves to the next candidate
NextCandidate(m, res) ==
  /\ SetMgr(m)
  /\ attempt' = res
  /\ child_plan' = "none"
  /\ IF ReturnsAtOnce(res)
     THEN result' = res /\ pc' = "idle" /\ idx' = idx
     ELSE result' = result /\ pc' = "loop" /\ idx' = idx + 1

LaunchOutcomes == {"ok", "open_stdout_fails", "open_stderr_fails", "popen_fails"}

NewFile == [closes |-> 0]
NewChild == [alive |-> TRUE]

\* lines 120-121: open(..., "wb") and the assignment of the handle
OpenStdout(m) == [m EXCEPT !.files = Append(@, NewFile), !.out = Len(m.files) + 1]
OpenStderr(m) == [m EXCEPT !.files = Append(@, NewFile), !.err = Len(m.files) + 1]
\* lines 123-129: subprocess.Popen
Popen(m) == [m EXCEPT !.procs = Append(@, NewChild), !.process = Len(m.procs) + 1]

\* lines 115-129 up to the point where one of the calls raises
Launched(m, lo) ==
  LET m1 == IF lo = "open_stdout_fails" THEN m ELSE OpenStdout(m)
      m2 == IF lo \in {"open_stdout_fails", "open_stderr_fails"} THEN m1 ELSE OpenStderr(m1)
  IN IF lo = "ok" THEN Popen(m2) ELSE m2

LaunchTags(lo) ==
  {"launch"} \cup (IF lo = "open_stdout_fails" THEN {} ELSE {"open"})
             \cup (IF lo = "ok" THEN {"spawn"} ELSE {})

\* the children the environment can give an attempt: "healthy" stays up,
\* writes at most its own port to the log and answers 200 on it at once
Plans == IF timeout_seconds > 0 THEN {"healthy", "any"} ELSE {"any"}

\* lines 94-100 for a candidate that is not skipped, then _start_on_port
\* up to the call of _wait_for_frontend: the dependency step and the test
\* of its value (112-113), the launch (115-129), the handler (143-146)
StartOnPort ==
  /\ pc = "loop" /\ idx <= Len(ports_to_try)
  /\ \E net \in NetAnswers(ports_to_try[idx]),
        outcome \in InstallOutcomes, plan \in Plans :
       LET occ == _is_port_occupied(ports_to_try[idx], net)
           d == _ensure_dependencies(node_modules, outcome)
           ret == IF deps_stub THEN "True" ELSE d.ret
           ev == [h_events EXCEPT ![idx] = @ \cup {OccTag(occ), "deps", plan}]
       IN /\ ~SkipsPort(occ)
          /\ h_occ' = OccReport(ports_to_try[idx], net, occ)
          /\ outcome = "skipped" <=> (node_modules \/ deps_stub)
          /\ node_modules' = IF deps_stub THEN node_modules ELSE d.node_modules
          /\ h_install' = IF deps_stub THEN "stub" ELSE outcome
          /\ IF ~Truthy(ret)
             THEN /\ NextCandidate(Mgr, Failure(<<"Echec de l'installation des dependances npm">>))
                  /\ h_events' = ev
                  /\ h_stop' = NoStop
                  /\ UNCHANGED <<stdout_log, detected_port, url_to_check, elapsed, probes>>
             ELSE /\ Len(procs) < MaxLaunches /\ Len(files) + 2 <= 2 * MaxLaunches
                  /\ \E lo \in LaunchOutcomes :
                       /\ plan = "healthy" => lo = "ok"
                       /\ h_events' = [ev EXCEPT ![idx] = @ \cup LaunchTags(lo)]
                       /\ stdout_log' = IF lo = "open_stdout_fails" THEN stdout_log ELSE NoLog
                       /\ IF lo = "ok"
                          THEN /\ SetMgr(Launched(Mgr, lo))
                               /\ pc' = "wait_poll"
                               /\ child_plan' = plan
                               /\ detected_port' = ports_to_try[idx]
                               /\ url_to_check' = NoUrl
                               /\ elapsed' = 0
                               /\ probes' = 0
                               /\ h_stop' = NoStop
                               /\ UNCHANGED <<attempt, idx, result>>
                          ELSE /\ \E so \in StopOutcomes :
                                    /\ NextCandidate(stop(Launched(Mgr, lo), so), Failure(<<lo>>))
                                    /\ h_stop' = stop_report(Launched(Mgr, lo), so)
                               /\ UNCHANGED <<detected_port, url_to_check, elapsed, probes>>
  /\ h_health' = NoHealth /\ h_probe' = NoProbe
  /\ UNCHANGED <<cfg, ports_to_try, stops_in_row, starts, cli_pc>>

\* ---------------------------------------------------------------------
\* _wait_for_frontend(), lines 187-231, and its caller's lines 131-146

Waiting == pc \in {"wait_poll", "wait_probe", "wait_sleep"}

\* a poll() that never sees the exit
poll_blind(c) == "None"

\* Popen.poll(), line 196: None while the child runs
poll(c) == IF c.alive THEN "None" ELSE "exited"

NotReady == Failure(<<"Echec du demarrage du frontend sur le port", ports_to_try[idx]>>)

\* _wait_for_frontend has returned (False, None, None) or raised: the
\* caller stops (line 140 or 145) and returns a failure
AttemptFails(res, tag) ==
  /\ \E so \in StopOutcomes :
       /\ NextCandidate(stop(Mgr, so), res)
       /\ h_stop' = stop_report(Mgr, so)
  /\ h_events' = Tag(h_events, idx, tag)
  /\ stdout_log' = NoLog
  /\ UNCHANGED <<cfg, node_modules, ports_to_try, detected_port, url_to_check,
                 elapsed, stops_in_row, starts, cli_pc>>
  /\ h_install' = "none" /\ h_health' = NoHealth /\ h_occ' = NoOcc

\* line 194 false: line 230 formats url_to_check, unbound when no cycle
\* ran (UnboundLocalError, caught at line 143); else line 231 returns
\* (False, None, None)
WaitDeadline ==
  /\ pc = "wait_poll"
  /\ ~(elapsed < timeout_seconds)
  /\ AttemptFails(IF url_to_check = NoUrl
                  THEN Failure(<<"UnboundLocalError: url_to_check">>)
                  ELSE NotReady, "deadline")
  /\ h_probe' = NoProbe
  /\ UNCHANGED probes

\* lines 196-198: the child has exited
WaitChildExited ==
  /\ pc = "wait_poll"
  /\ elapsed < timeout_seconds
  /\ poll(procs[process]) # "None"
  /\ AttemptFails(NotReady, "exited")
  /\ h_probe' = NoProbe
  /\ UNCHANGED probes

\* re.search at line 206 and match.group(2): the port of the leftmost
\* "Local:" line of the text, None when there is no such line
re_search(log) == IF log = NoLog THEN None ELSE Head(log)

\* lines 201-213: the port announced in the log, when the log can be read
Scrape(detected, log, readable) ==
  IF readable /\ re_search(log) # None /\ re_search(log) # detected
  THEN re_search(log) ELSE detected

\* lines 196-215: the child runs; scrape the log, fix the url to probe
WaitScrape ==
  /\ pc = "wait_poll"
  /\ elapsed < timeout_seconds
  /\ poll(procs[process]) = "None"
  /\ \E readable \in (IF stdout_log = NoLog THEN {TRUE} ELSE BOOLEAN) :
       /\ detected_port' = Scrape(detected_port, stdout_log, readable)
       /\ url_to_check' = Url(Scrape(detected_port, stdout_log, readable))
  /\ pc' = "wait_probe"
  /\ UNCHANGED <<cfg, runtime, envv, ports_to_try, idx, elapsed, probes, result,
                 attempt, child_plan, h_events, stops_in_row, starts, cli_pc>>
  /\ NoStepReport

\* a probe that takes any answer for a 200
Ready_any(response) == response # "timeout"

\* line 221: `if response.status == 200`
Ready(response) == response = "200"

\* a status that passes line 221, then lines 223 and 133-138
ProbeReady ==
  /\ pc = "wait_probe"
  /\ \E response \in Responses \ {"client_error", "timeout"} :
       /\ Ready(response)
       /\ h_probe' = response
  /\ current_port' = detected_port
  /\ current_url' = url_to_check
  /\ pid' = process
  /\ result' = [success |-> TRUE, url |-> url_to_check,
                port |-> detected_port, pid |-> process]
  /\ attempt' = NoResult
  /\ pc' = "idle"
  /\ child_plan' = "none"
  /\ ReturnLocals
  /\ h_events' = Tag(h_events, idx, "ready")
  /\ stdout_log' = NoLog
  /\ UNCHANGED <<cfg, process, frontend_stdout_log_file, frontend_stderr_log_file,
                 node_modules, procs, files, ports_to_try, idx, stops_in_row, starts, cli_pc>>
  /\ h_install' = "none" /\ h_stop' = NoStop /\ h_health' = NoHealth /\ h_occ' = NoOcc

\* the child of the attempt answers 200 at once on the port it was given
MustAnswer == child_plan = "healthy" /\ detected_port = ports_to_try[idx]

\* lines 224-228: a ClientError or a status other than 200, then the sleep
ProbeNotReady ==
  /\ pc = "wait_probe"
  /\ ~MustAnswer
  /\ \E response \in Responses \ {"timeout"} :
       /\ response = "client_error" \/ ~Ready(response)
       /\ h_probe' = response
  /\ probes' = probes + 1
  /\ pc' = "wait_sleep"
  /\ UNCHANGED <<cfg, runtime, envv, ports_to_try, idx, detected_port, url_to_check,
                 elapsed, result, attempt, child_plan, h_events, stops_in_row, starts, cli_pc>>
  /\ h_install' = "none" /\ h_stop' = NoStop /\ h_health' = NoHealth /\ h_occ' = NoOcc

\* timeout=15 expires at line 219: asyncio.TimeoutError is not an
\* aiohttp.ClientError, it leaves the loop and reaches line 143
ProbeTimeout ==
  /\ pc = "wait_probe"
  /\ ~MustAnswer
  /\ probes' = probes + 1
  /\ h_probe' = "timeout"
  /\ AttemptFails(Failure(<<"TimeoutError">>), "probe_timeout")

Min(a, b) == IF a < b THEN a ELSE b

\* line 228: asyncio.sleep(2); the clock is kept up to the deadline
WaitSleep ==
  /\ pc = "wait_sleep"
  /\ elapsed' = Min(elapsed + SleepSeconds, timeout_seconds)
  /\ pc' = "wait_poll"
  /\ UNCHANGED <<cfg, runtime, envv, ports_to_try, idx, detected_port, url_to_check,
                 probes, result, attempt, child_plan, h_events, stops_in_row, starts, cli_pc>>
  /\ NoStepReport

\* ---------------------------------------------------------------------
\* the children, independent OS processes

\* the child the manager owns exits by itself, unless it is the child of
\* the attempt in flight and one that stays up; a child the manager lost
\* track of keeps running
ChildExits ==
  /\ process # None /\ procs[process].alive
  /\ ~(Waiting /\ child_plan = "healthy")
  /\ procs' = [procs EXCEPT ![process].alive = FALSE]
  /\ UNCHANGED <<cfg, runtime, node_modules, files, stdout_log, flow, h_events, stops_in_row, starts, cli_pc>>
  /\ NoStepReport

\* one more "Local:" line in the log: the first line stays the first, the
\* new one is the last
Announce(log, q) ==
  IF log = NoLog THEN <<q>>
  ELSE IF q = Head(log) /\ Len(log) = 1 THEN log
  ELSE <<Head(log), q>>

\* the child writes a "Local: http://localhost:<q>" line to its stdout
ChildAnnounces ==
  /\ Waiting /\ process # None /\ procs[process].alive
  /\ \E q \in Ports :
       /\ child_plan = "healthy" => q = ports_to_try[idx]
       /\ stdout_log' = Announce(stdout_log, q)
       /\ stdout_log' # stdout_log
  /\ UNCHANGED <<cfg, runtime, node_modules, procs, files, flow, h_events, stops_in_row, starts, cli_pc>>
  /\ NoStepReport

\* ---------------------------------------------------------------------
\* main() of `python frontend_manager.py start`, lines 333-367

\* lines 336-352: the guard, then `await manager.start_dev_server()`:
\* FrontendManager defines no start_dev_server, the call raises
\* AttributeError and main() ends there
CliMain ==
  /\ cli_pc = "start"
  /\ cli_pc' = IF ~enabled \/ PathMissing(frontend_path) THEN "exit_1"
               ELSE IF cli_stub THEN "call"
               ELSE "AttributeError"
  /\ UNCHANGED <<cfg, runtime, envv, flow, h_events, stops_in_row, starts>>
  /\ NoStepReport

\* lines 353-365: the result of the start
CliResult ==
  /\ cli_pc = "starting" /\ pc = "idle"
  /\ cli_pc' = IF result.success THEN "serving" ELSE "exit_1"
  /\ UNCHANGED <<cfg, runtime, envv, flow, h_events, stops_in_row, starts>>
  /\ NoStepReport

\* what SIGINT raises in main() while it waits at line 358.  asyncio.run
\* cancels the main task (its own SIGINT handler, or its cleanup after the
\* KeyboardInterrupt left the event loop): the coroutine gets CancelledError
\* at the await.  KeyboardInterrupt is raised in the coroutine itself only
\* when the signal arrives while the coroutine is executing.
Deliveries == {"KeyboardInterrupt", "CancelledError"}

\* line 359: `except KeyboardInterrupt`
Caught(delivery) == delivery = "KeyboardInterrupt"

\* lines 356-362: the interrupt during the wait, stop() in the handler
CliInterrupt ==
  /\ cli_pc = "serving"
  /\ \E delivery \in Deliveries :
       IF Caught(delivery)
       THEN /\ \E outcome \in StopOutcomes :
                 /\ SetMgr(stop(Mgr, outcome))
                 /\ h_stop' = stop_report(Mgr, outcome)
            /\ stops_in_row' = IF stops_in_row < 2 THEN stops_in_row + 1 ELSE 2
            /\ cli_pc' = "stopped"
       ELSE /\ cli_pc' = "interrupted"
            /\ h_stop' = NoStop
            /\ UNCHANGED <<runtime, procs, files, stops_in_row>>
  /\ h_install' = "none" /\ h_health' = NoHealth /\ h_occ' = NoOcc /\ h_probe' = NoProbe
  /\ UNCHANGED <<cfg, node_modules, stdout_log, flow, h_events, starts>>

\* ---------------------------------------------------------------------

Init ==
  /\ cli_pc \in {"lib", "start"}
  /\ cli_stub \in (IF cli_pc = "start" THEN BOOLEAN ELSE {FALSE})
  \* main() builds the manager with config={} (line 333): the defaults
  /\ enabled \in (IF cli_pc = "start" THEN {TRUE} ELSE BOOLEAN)
  /\ frontend_path \in {"None", "frontend"}
  /\ start_port = PortBase
  /\ fallback_ports \in (IF cli_pc = "start"
                         THEN {[i \in 1..MaxFallbacks |-> PortBase + i]}
                         ELSE FallbackLists)
  /\ timeout_seconds \in (IF cli_pc = "start" THEN {MaxTimeout} ELSE TimeoutChoices)
  /\ deps_stub \in BOOLEAN
  /\ process = None /\ current_port = None /\ current_url = NoUrl /\ pid = None
  /\ frontend_stdout_log_file = None /\ frontend_stderr_log_file = None
  \* the dependency directory matters only to the real dependency step
  /\ node_modules \in (IF deps_stub THEN {TRUE} ELSE BOOLEAN)
  /\ procs = <<>> /\ files = <<>> /\ stdout_log = NoLog
  /\ pc = "idle" /\ ports_to_try = <<>> /\ idx = 0
  /\ detected_port = None /\ url_to_check = NoUrl /\ elapsed = 0 /\ probes = 0
  /\ result = NoResult /\ attempt = NoResult
  /\ child_plan = "none"
  /\ h_events = <<>> /\ h_install = "none" /\ h_stop = NoStop /\ h_health = NoHealth /\ h_occ = NoOcc
  /\ h_probe = NoProbe
  /\ stops_in_row = 0 /\ starts = 0

Next ==
  \/ Stop \/ HealthCheck \/ start_with_failover \/ SkipOccupied \/ StartOnPort \/ AllPortsFailed
  \/ WaitDeadline \/ WaitChildExited \/ WaitScrape
  \/ ProbeReady \/ ProbeNotReady \/ ProbeTimeout \/ WaitSleep
  \/ ChildExits \/ ChildAnnounces
  \/ CliMain \/ CliResult \/ CliInterrupt

Spec == Init /\ [][Next]_vars

TypeOK ==
  /\ pc \in {"idle", "loop", "wait_poll", "wait_probe", "wait_sleep"}
  /\ process \in 0..MaxLaunches
  /\ current_port \in Ports \cup {None}

\* ---------------------------------------------------------------------
\* The claims

Tried == DOMAIN h_events
RunDone == pc = "idle" /\ "success" \in DOMAIN result
Configured == enabled /\ frontend_path # "None"
AliveChildren == {k \in 1..Len(procs) : procs[k].alive}
AllAbsent ==
  /\ process = None /\ current_port = None /\ current_url = NoUrl /\ pid = None
  /\ frontend_stdout_log_file = None /\ frontend_stderr_log_file = None
AllPresent ==
  /\ process # None /\ current_port # None /\ current_url # NoUrl /\ pid # None
  /\ frontend_stdout_log_file # None /\ frontend_stderr_log_file # None
\* the step closed, once, each sink the manager held, and holds none after it
SinksClosedOnce ==
  /\ frontend_stdout_log_file # None /\ frontend_stderr_log_file # None
  /\ files'[frontend_stdout_log_file].closes = 1
  /\ files'[frontend_stderr_log_file].closes = 1
  /\ frontend_stdout_log_file' = None /\ frontend_stderr_log_file' = None

\* C1: when the manager is enabled and the path is resolved, and a
\* candidate is found free whose child stays up and answers 200 before the
\* deadline, start_with_failover returns success with that port, the url
\* http://localhost:<port> and the child's pid.
C1_FirstReadyCandidateSucceeds ==
  (RunDone /\ Configured) =>
    \A i \in Tried :
      "healthy" \in h_events[i] =>
        /\ result.success
        /\ DOMAIN result = {"success", "url", "port", "pid"}
        /\ result.port = ports_to_try[i]
        /\ result.url = Url(ports_to_try[i])
        /\ result.pid \in 1..Len(procs)

\* C2: whenever _start_on_port runs the dependency step, whatever the
\* install did (failed, timed out, succeeded, skipped), the launch of the
\* child server follows for that port.
C2_InstallFailureStillSpawns ==
  \A i \in Tried : "deps" \in h_events[i] => "launch" \in h_events[i]

\* C3: a candidate for which the occupancy check returned true gets no
\* dependency step, no log sink and no spawn.
C3_OccupiedNeverSpawned ==
  \A i \in Tried :
    "occupied" \in h_events[i] =>
      h_events[i] \cap {"deps", "launch", "open", "spawn"} = {}

C3_Witness ==
  \E i, j \in Tried : "occupied" \in h_events[i] /\ "spawn" \in h_events[j]

\* C4: when no candidate succeeded, start_with_failover returns
\* success=false with an error listing [start_port] + fallback_ports in
\* order, reports no url, port or pid, and no child process is owned.
C4_ExhaustedFailure ==
  (RunDone /\ Configured /\ ~result.success) =>
    /\ DOMAIN result = {"success", "error"}
    /\ result.error[2] = Candidates(start_port, fallback_ports)
    /\ process = None

StopCall == pc = "idle" /\ pc' = "idle" /\ stops_in_row' = stops_in_row + 1
C6_StopIdempotent ==
  [][StopCall =>
       /\ stops_in_row = 1 =>
            (UNCHANGED <<runtime, procs, files>> /\ h_stop' = NoStop)
       /\ Len(procs) = 0 =>
            (UNCHANGED <<runtime, procs, files>> /\ AllAbsent')]_vars

\* C7: after stop() from a state in which a process is owned, every runtime
\* field is absent and each of the two sinks has been closed exactly once.
C7_StopClearsEverything ==
  [][(process # None /\ process' = None) => (AllAbsent' /\ SinksClosedOnce)]_vars

\* C8: between operations and at the suspension points of the readiness
\* wait, the runtime fields are all present or all absent.
C8_RuntimeAllOrNothing ==
  pc \in {"idle", "wait_probe", "wait_sleep"} => (AllAbsent \/ AllPresent)

\* C9: at most one spawned child is alive at any time, and no attempt
\* is started while a process or a log sink of an earlier one is owned.
C9_SingleChild ==
  [][/\ Cardinality(AliveChildren') <= 1
     /\ (Len(procs') > Len(procs) \/ Len(files') > Len(files)) =>
          (process = None /\ frontend_stdout_log_file = None
                          /\ frontend_stderr_log_file = None)]_vars

\* C10: at the start of a cycle of _wait_for_frontend, if the child has
\* exited, the wait ends at once with (False, None, None): no probe is made
\* in that cycle and the attempt fails.
C10_ExitedChildFailsAtCycleStart ==
  [][(/\ pc = "wait_poll" /\ elapsed < timeout_seconds
      /\ ~procs[process].alive /\ pc' # pc) =>
       /\ pc' = "loop"
       /\ attempt' = NotReady
       /\ probes' = probes]_vars

\* a child that exited right after the spawn: failed on the first cycle
C10_Witness ==
  /\ pc = "loop" /\ idx > 1
  /\ {"spawn", "exited"} \subseteq h_events[idx - 1]
  /\ probes = 0

\* the ports of the "Local:" lines the log holds
Announced == {stdout_log[k] : k \in 1..Len(stdout_log)}

\* C11: in a cycle of _wait_for_frontend whose log holds an announcement of
\* a port other than the tracked one, the tracked port and the probed url
\* switch to an announced port; a 200 then records the tracked port and its
\* url as current_port and current_url and returns them.
C11_AnnouncedPortFollowed ==
  [][/\ (pc = "wait_poll" /\ pc' = "wait_probe" /\ Announced \ {detected_port} # {}) =>
          (/\ detected_port' \in Announced \ {detected_port}
           /\ url_to_check' = Url(detected_port'))
     /\ (pc = "wait_probe" /\ pc' = "idle") =>
          (/\ current_port' = detected_port /\ current_url' = Url(detected_port)
           /\ result'.port = detected_port /\ result'.url = Url(detected_port))]_vars

\* C12: a failed probe (client error, the 15 s timeout, a status other than
\* 200) is followed by the sleep and another cycle; the wait ends only by a
\* 200, by the exit of the child or by the deadline, both seen at the head
\* of a cycle.
C12_ProbeFailureKeepsWaiting ==
  [][/\ (pc = "wait_probe" /\ probes' = probes + 1) => pc' = "wait_sleep"
     /\ (Waiting /\ ~Waiting') => (pc = "wait_poll" \/ "ready" \in h_events'[idx])]_vars

\* C13: for every timeout_seconds, 0 included, once the deadline has passed
\* with the child alive and no 200, _wait_for_frontend returns
\* (False, None, None): the attempt fails as not ready, stop() has run and
\* the loop is at the next candidate.
C13_DeadlineEndsWait ==
  [][(pc = "wait_poll" /\ ~(elapsed < timeout_seconds) /\ pc' # pc) =>
       /\ pc' = "loop" /\ idx' = idx + 1
       /\ attempt' = NotReady
       /\ process' = None]_vars

\* C14: whatever the occupancy check, the dependency step, the spawn, the
\* readiness wait and stop() did, exceptions and timeouts included, a run of
\* start_with_failover that is over has returned a result record, and a
\* record with success = false is the path-not-found failure or the
\* all-ports failure, never the failure of one attempt.
C14_OnlyTwoFailures ==
  (pc = "idle" /\ starts > 0) =>
    /\ "success" \in DOMAIN result
    /\ ~result.success =>
         /\ DOMAIN result = {"success", "error"}
         /\ \/ result.error = <<"Chemin du frontend non trouve.">>
            \/ result.error = <<"Impossible de demarrer le frontend sur les ports configures",
                                Candidates(start_port, fallback_ports)>>

\* a run with an attempt ended by an exception in the launch and one ended
\* by an exception in the wait, stop() raising at the end of the last one
C14_Witness ==
  /\ RunDone /\ ~result.success
  /\ \E i, j \in Tried :
       /\ "launch" \in h_events[i] /\ "spawn" \notin h_events[i]
       /\ "probe_timeout" \in h_events[j]

\* C15: with the project path unresolved, an enabled manager's
\* start_with_failover returns success = false at once: no port is checked,
\* no install is run, nothing is opened or spawned, the runtime state stays
\* as it was (absent, nothing having ever been started).
C15_PathNotFoundFailsAtOnce ==
  (enabled /\ frontend_path = "None") =>
    /\ pc = "idle" /\ h_events = <<>> /\ h_install = "none"
    /\ procs = <<>> /\ files = <<>> /\ AllAbsent
    /\ starts > 0 => result = [success |-> FALSE, error |-> <<"Chemin du frontend non trouve.">>]

C15_Witness == enabled /\ frontend_path = "None" /\ starts > 0 /\ ~result.success

\* C16: health_check returns true iff a url is recorded and its one GET
\* gets a 200; an exception, a timeout or another status gives false with
\* no second request; no runtime field changes; after stop(), and before
\* any successful start, it returns false without a request.
C16_HealthCheckStateless ==
  [][(h_health' # NoHealth) =>
       /\ h_health'.ret <=> (current_url # NoUrl /\ h_health'.requests = 1
                                /\ h_health'.response = "200")
       /\ h_health'.requests <= 1
       /\ UNCHANGED <<runtime, procs, files>>
       /\ (stops_in_row > 0 \/ current_port = None) =>
            (h_health'.requests = 0 /\ ~h_health'.ret)]_vars

\* a check of a started frontend that does not answer in time
C16_Witness ==
  /\ h_health # NoHealth /\ h_health.requests = 1
  /\ h_health.response = "timeout" /\ ~h_health.ret

\* C17: _is_port_occupied returns true when the connection table shows a
\* listening socket on the port; when the table is denied, true iff the
\* HTTP GET to the port gets a response; false when neither probe tells.
C17_OccupancyPolicy ==
  h_occ.checked =>
    h_occ.ret = IF ~h_occ.denied THEN h_occ.listening ELSE h_occ.http

\* the candidates a run has touched so far: all before the current one, and
\* the current one while its attempt runs or after it succeeded
Touched(i) ==
  \/ i < idx
  \/ i = idx /\ (Waiting \/ (pc = "idle" /\ "ready" \in h_events[i]))

C18_InOrder ==
  Tried # {} =>
    /\ ports_to_try = <<start_port>> \o fallback_ports
    /\ \A i \in Tried : (h_events[i] # {}) <=> Touched(i)
    /\ \A i \in Tried : "ready" \in h_events[i] => (i = idx /\ pc = "idle")
    /\ (RunDone /\ result.success /\ stops_in_row = 0) =>
         (process # None /\ process = result.pid /\ result.port = current_port)

C18_OneAtATime ==
  (idx' # idx) => (idx' = idx + 1 \/ (pc = "idle" /\ idx' = 1))

\* C18: the candidates are tried in the order [start_port] + fallback_ports,
\* one after the other and each once; a success ends the run: the
\* candidates after it are never checked or spawned, and the child of the
\* success is the one the manager owns when the run returns.
C18_FirstSuccessWins == []C18_InOrder /\ [][C18_OneAtATime]_vars

\* a success on the start port with a fallback left untried
C18_Witness ==
  /\ RunDone /\ result.success /\ stops_in_row = 0 /\ Configured
  /\ idx < Len(ports_to_try) /\ h_events[idx + 1] = {}
  /\ process # None /\ procs[process].alive

\* C19: in the 'start' mode of the command line, once the server is started
\* and main() waits, an interrupt is followed by stop(): after it no child
\* process is owned and both log sinks are closed.
C19_InterruptStops ==
  cli_pc \in {"stopped", "interrupted"} =>
    /\ process = None
    /\ frontend_stdout_log_file = None /\ frontend_stderr_log_file = None
    /\ \A f \in 1..Len(files) : files[f].closes >= 1

\* C20: a stop() of an owned process sends the terminate signal first, a
\* kill only after it and only when the 10 s wait ran out; when stop()
\* returns without a shutdown error the child is not alive.
C20_StopEscalates ==
  h_stop.child # None =>
    /\ h_stop.signals \in {<<>>, <<"terminate">>, <<"terminate", "kill">>}
    /\ (h_stop.signals = <<"terminate", "kill">>) <=> h_stop.timed_out
    /\ ~h_stop.raised => ~procs[h_stop.child].alive
    /\ h_stop.signals = <<>> => (h_stop.raised \/ ~procs[h_stop.child].alive)

\* a child that ignored the terminate signal for 10 s and was killed
C20_Witness ==
  /\ h_stop.child # None /\ h_stop.timed_out
  /\ h_stop.signals = <<"terminate", "kill">>
  /\ ~procs[h_stop.child].alive

\* C21: _wait_for_frontend returns ready only in a cycle whose liveness
\* check found the child alive and whose GET of the tracked port answered
\* 200; it returns in that cycle with the tracked port and
\* http://localhost:<tracked port>; no other status or event yields ready.
C21_ReadyOnlyOn200OfLiveChild ==
  [][ /\ (pc # "wait_probe" /\ pc' = "wait_probe") =>
           /\ pc = "wait_poll" /\ process # None
           /\ procs[process].alive
           /\ url_to_check' = Url(detected_port')
      /\ (Waiting /\ pc' = "idle") =>
           /\ pc = "wait_probe" /\ h_probe' = "200"
           /\ result' = [success |-> TRUE, url |-> Url(detected_port),
                         port |-> detected_port, pid |-> process]
           /\ current_port' = detected_port
           /\ current_url' = Url(detected_port)
      /\ (pc = "wait_probe" /\ h_probe' = "200") =>
           (pc' = "idle" /\ result'.success)
      /\ (pc = "wait_probe" /\ h_probe' # "200") =>
           (pc' # "idle" /\ result' = result)
    ]_vars

\* a wait that ended ready on a port other than the one the child was given
C21_Witness ==
  /\ pc = "idle" /\ h_probe = "200" /\ result.success
  /\ result.port # ports_to_try[idx]
  /\ current_url = Url(result.port)

\* C22: when opening the second log file or spawning the child raises in
\* _start_on_port with no process handle recorded, then at the return of
\* _start_on_port both sink fields are absent and every sink the launch
\* opened has been closed.
C22_FailedLaunchLeaksNothing ==
  [][ ( /\ pc = "loop" /\ pc' = "loop" /\ idx' = idx + 1
        /\ "open" \in h_events'[idx] /\ "spawn" \notin h_events'[idx]
        /\ process = None ) =>
      ( /\ frontend_stdout_log_file' = None
        /\ frontend_stderr_log_file' = None
        /\ \A f \in (Len(files) + 1)..Len(files') : files'[f].closes >= 1 )
    ]_vars

\* C23: get_status().running is true exactly when the manager owns a
\* process handle: false initially and after every stop(), true from the
\* spawn until the next stop(), and still true after a started child exited
\* on its own, until stop() is called.
C23_StopStep ==
  \/ StopCall
  \/ h_stop' # NoStop
  \/ cli_pc # "stopped" /\ cli_pc' = "stopped"
C23_RunningIsOwnership ==
  /\ [](get_status.running <=> process # None)
  /\ [](Len(procs) = 0 => ~get_status.running)
  /\ [][ /\ C23_StopStep => ~(get_status').running
         /\ Len(procs') > Len(procs) => (get_status').running
         /\ (get_status.running /\ ~C23_StopStep) => (get_status').running
         /\ (RunDone /\ result.success /\ Configured /\ ~C23_StopStep
               /\ process # None /\ ~procs'[process].alive) =>
              (get_status').running
       ]_vars

\* a started server whose child exited on its own and was not stopped yet
C23_Witness ==
  /\ RunDone /\ result.success /\ Configured
  /\ process # None /\ ~procs[process].alive
  /\ get_status.running

\* C24: when enabled is false, start_with_failover returns a result with
\* success=true and no url, port or pid, checks no port, runs no dependency
\* step, spawns no process and leaves every runtime field unchanged.
C24_DisabledStartDoesNothing ==
  /\ [](~enabled => (Len(procs) = 0 /\ Len(files) = 0 /\ AllAbsent))
  /\ [][ (~enabled /\ starts' = starts + 1) =>
           /\ result'.success
           /\ DOMAIN result' \cap {"url", "port", "pid"} = {}
           /\ pc' = "idle"
           /\ h_occ' = NoOcc /\ h_install' = "none" /\ h_events' = h_events
           /\ UNCHANGED <<runtime, envv>>
       ]_vars

\* a disabled manager whose start_with_failover has returned
C24_Witness ==
  /\ ~enabled /\ starts > 0 /\ pc = "idle"
  /\ result = [success |-> TRUE, error |-> <<"Frontend desactive">>]

====
